---- MODULE Spec2Model ----
(***************************************************************************)
(* A model of the sodapy2 client: the row query (Socrata.get), the paging  *)
(* generator (Socrata.get_all), dataset discovery (Socrata.datasets), the  *)
(* request/decoding step (Socrata._perform_request) and the helpers of     *)
(* sodapy2/utils.py.                                                        *)
(*                                                                         *)
(* Python values are tagged records, so that None, "", 0 and False are     *)
(* four different values.  A dict is a function whose DOMAIN is its key    *)
(* set; a **kwargs whose order matters is a sequence of <<key, value>>.    *)
(***************************************************************************)
EXTENDS Integers, Sequences, FiniteSets, TLC

VARIABLES
    \* ---- the recording transport (requests.Session behind the client)
    requests,     \* the requests the transport has received, in order
    responses,    \* the answer the transport gave to each of them
    \* ---- one get_all generator and its consumer
    kwargs,       \* the keyword arguments get_all was called with
    gen_pc,       \* where the generator body stands
    params,       \* get_all: the local dict `params`
    limit,        \* get_all: the local `limit`
    response,     \* get_all: the local `response` (the current page)
    idx,          \* get_all: how many items of `response` the for loop has yielded
    consumer,     \* "idle" | "asking" (inside next()) | "stopped" | "finished"
    nYielded,     \* number of records handed to the consumer
    lastYielded,  \* the last record handed over: <<request number, index in page>>
    asks,         \* number of next() calls the consumer has made
    raised,       \* what the last next() raised to the consumer, or NoError
    \* ---- one call of a non-generator operation (get, datasets, clear_empty_values)
    call,         \* the call: operation and arguments
    result,       \* its outcome, or Pending while it has not returned
    ds,           \* datasets: its locals while it runs (params, offset, results, ...)
    \* ---- the objects a caller holds
    err,          \* a SodaHTTPError, once one is constructed
    client,       \* a Socrata client, once one is constructed
    session,      \* the requests.Session of the client: "none" | "open" | "closed"
    block,        \* a `with Socrata(...) as c:` block: where it stands and how it was left
    \* ---- the other end of the transport
    server        \* a server with a fixed content, when the answers come from one

transportVars == <<requests, responses>>
genVars == <<kwargs, gen_pc, params, limit, response, idx>>
consumerVars == <<consumer, nYielded, lastYielded, asks, raised>>
callVars == <<call, result, ds>>
objVars == <<err, client, session, block>>

vars == <<transportVars, genVars, consumerVars, callVars, objVars, server>>

-----------------------------------------------------------------------------
(* Bounds of the model *)

MaxRequests == 3    \* the transport answers at most this many requests of one get_all
MaxLimit == 2       \* small caller limits are 0..MaxLimit
MaxOffset == 1      \* caller offsets are 0..MaxOffset
MaxTotal == 2       \* the catalog reports 0..MaxTotal entries, and returns as many at most

-----------------------------------------------------------------------------
(* Python values *)

None == [t |-> "None", v |-> ""]
PyInt(n) == [t |-> "int", v |-> n]
PyStr(s) == [t |-> "str", v |-> s]
PyBool(b) == [t |-> "bool", v |-> b]

\* every dict over the keys K with values in V
Dicts(K, V) == UNION {[D -> V] : D \in SUBSET K}

\* dict.get(key, default)
DictGet(d, key, default) == IF key \in DOMAIN d THEN d[key] ELSE default

\* d1.update(d2)
DictUpdate(d1, d2) ==
    [k \in DOMAIN d1 \cup DOMAIN d2 |-> IF k \in DOMAIN d2 THEN d2[k] ELSE d1[k]]

EmptyDict == [k \in {} |-> None]

-----------------------------------------------------------------------------
(* Program constants *)

DEFAULT_LIMIT == 1000
\* imported from sodapy2.constants; the values are not in the sources
DEFAULT_API_PATH == "DEFAULT_API_PATH"
DATASETS_PATH == "DATASETS_PATH"

-----------------------------------------------------------------------------
(* sodapy2/utils.py *)

\* clear_empty_values(args): keep the entries whose value `is not None`
clear_empty_values_falsy(args) ==
    [param \in {p \in DOMAIN args :
                    args[p] \notin {None, PyStr(""), PyInt(0), PyBool(FALSE)}}
        |-> args[param]]

clear_empty_values(args) ==
    [param \in {p \in DOMAIN args : args[p] # None} |-> args[param]]

\* raise_for_status(response): TRUE iff it raises requests.exceptions.HTTPError
raise_for_status(status_code) ==
    \/ (400 <= status_code /\ status_code < 500)
    \/ (500 <= status_code /\ status_code < 600)

\* format_new_api_request(dataset_id, content_type) with row_id = ""
format_new_api_request(dataset_id, content_type) ==
    <<DEFAULT_API_PATH, dataset_id, ".", content_type>>

-----------------------------------------------------------------------------
(* The transport's answer to one request (requests.Response, or an         *)
(* exception of the transport).                                            *)
(*   exc          TRUE when session.get raises (connection error, timeout) *)
(*   status_code  the HTTP status                                          *)
(*   body         [fmt, n]: the text of the body, by what it is:           *)
(*                "empty" (text == ""), "json_list" (a JSON array of n     *)
(*                records), "json_object" (a JSON object of n keys),       *)
(*                "csv" (n lines, the header first), "not_json" (n chars   *)
(*                that json.loads rejects)                                 *)
(*   headers      the response headers, a dict; the content-type header,   *)
(*                when there is one, is a sequence of tokens               *)

Body(fmt, n) == [fmt |-> fmt, n |-> n]
EmptyBody == Body("empty", 0)

NoHeaders == [h \in {} |-> <<>>]
ContentType(ct) == [h \in {"content-type"} |-> ct]

TransportError == [exc |-> TRUE, status_code |-> 0, body |-> EmptyBody, headers |-> NoHeaders]

HttpResponse(status_code, body, headers) ==
    [exc |-> FALSE, status_code |-> status_code, body |-> body, headers |-> headers]

CT_JSON == ContentType(<<"application/json", "; charset=utf-8">>)

\* str.strip(): leading and trailing blanks removed (a blank is the token " ")
RECURSIVE LStrip(_)
LStrip(ct) == IF ct # <<>> /\ Head(ct) = " " THEN LStrip(Tail(ct)) ELSE ct

RECURSIVE RStrip(_)
RStrip(ct) ==
    IF ct # <<>> /\ ct[Len(ct)] = " " THEN RStrip(SubSeq(ct, 1, Len(ct) - 1)) ELSE ct

Strip(ct) == RStrip(LStrip(ct))

\* str.lower() on the tokens the model uses
LowerToken(tok) ==
    CASE tok = "Application/JSON" -> "application/json"
      [] tok = "TEXT/CSV" -> "text/csv"
      [] tok = "Text/Plain" -> "text/plain"
      [] tok = "; Charset=UTF-8" -> "; charset=utf-8"
      [] OTHER -> tok

Lower(ct) == [i \in 1..Len(ct) |-> LowerToken(ct[i])]

\* re.match(literal, content_type): the literal matches at the start of the string
ReMatch(literals, ct) == ct # <<>> /\ ct[1] \in literals

\* the outcomes of a call
Return(value) == [tag |-> "return", value |-> value, error |-> "", arg |-> ""]
RaiseArg(error, arg) == [tag |-> "raise", value |-> None, error |-> error, arg |-> arg]
Raise(error) == RaiseArg(error, "")

\* decoded values: what iterating them gives (n items) and whether len() exists
Value(kind, n) == [kind |-> kind, n |-> n]

\* the body of a catalog answer: {"resultSetSize": total, "results": [...]}
CatalogBody(total, results) ==
    [fmt |-> "json_catalog", n |-> 2, resultSetSize |-> total, results |-> results]

\* json.loads(text) / response.json()
IsJson(body) == body.fmt \in {"json_list", "json_object", "json_catalog"}
JsonValue(body) ==
    IF body.fmt = "json_list" THEN Value("list", body.n)
    ELSE IF body.fmt = "json_catalog"
    THEN [kind |-> "dict", n |-> body.n,
          resultSetSize |-> body.resultSetSize, results |-> body.results]
    ELSE Value("dict", body.n)

\* list(csv.reader(StringIO(text))): one row per line; a JSON document is one line
CsvRows(body) == Value("rows", IF body.fmt = "csv" THEN body.n ELSE 1)

-----------------------------------------------------------------------------
(* Socrata._perform_request(request_type, resource, **kwargs), from the    *)
(* transport's answer on (line 363 on).                                    *)

\* the status check of lines 365-366
StatusCheckRaises(status_code) ==
    status_code \notin {200, 202} /\ raise_for_status(status_code)

\* lines 372-387
Decode(resp) ==
    IF "content-type" \notin DOMAIN resp.headers
    THEN Raise("AttributeError")       \* headers.get gives None, None.strip()
    ELSE LET content_type == Lower(Strip(resp.headers["content-type"])) IN
         IF ReMatch({"application/json", "application/vnd.geo+json"}, content_type)
         THEN IF IsJson(resp.body) THEN Return(JsonValue(resp.body))
                                   ELSE Raise("ValueError")
         ELSE IF ReMatch({"text/csv"}, content_type)
         THEN Return(CsvRows(resp.body))
         ELSE IF ReMatch({"application/rdf+xml"}, content_type)
         THEN Return(Value("bytes", resp.body.n))
         ELSE IF ReMatch({"text/plain"}, content_type)
         THEN IF IsJson(resp.body) THEN Return(JsonValue(resp.body))
                                   ELSE Return(Value("str", resp.body.n))
         ELSE Raise("Unknown response format")

perform_request_decode_first(request_type, resp) ==
    IF request_type \notin {"get"}
    THEN Raise("Unknown HTTP request method")
    ELSE IF resp.exc
    THEN Raise("TransportError")
    ELSE IF StatusCheckRaises(resp.status_code)
    THEN Raise("HTTPError")
    ELSE Decode(resp)

perform_request(request_type, resp) ==
    IF request_type \notin {"get"}
    THEN Raise("Unknown HTTP request method")
    ELSE IF resp.exc
    THEN Raise("TransportError")
    ELSE IF StatusCheckRaises(resp.status_code)
    THEN Raise("HTTPError")
    ELSE IF resp.body.fmt = "empty"
    THEN Return(Value("Response", 0))
    ELSE Decode(resp)

-----------------------------------------------------------------------------
(* Socrata.get(dataset_id, content_type, **kwargs): the request it builds  *)

SoqlOptions ==
    {"select", "where", "order", "group", "limit", "offset", "q", "query",
     "exclude_system_fields"}

\* the parameter name of a recognized option (lines 302-312)
SoqlName(opt) ==
    CASE opt = "select" -> "$select"
      [] opt = "where" -> "$where"
      [] opt = "order" -> "$order"
      [] opt = "group" -> "$group"
      [] opt = "limit" -> "$limit"
      [] opt = "offset" -> "$offset"
      [] opt = "q" -> "$q"
      [] opt = "query" -> "$query"
      [] opt = "exclude_system_fields" -> "$$exclude_system_fields"

\* lines 302-312: every recognized option popped from kwargs, None when absent
SoqlParams(kw) ==
    [name \in {SoqlName(opt) : opt \in SoqlOptions} |->
        LET opt == CHOOSE o \in SoqlOptions : SoqlName(o) = name
        IN  DictGet(kw, opt, None)]

\* what is left in kwargs after the pops of lines 299-311
Remaining_dropped(kw) == [k \in {} |-> None]

Remaining(kw) == [k \in DOMAIN kw \ (SoqlOptions \cup {"format"}) |-> kw[k]]

\* lines 298-318: the request handed to _perform_request
GetRequest(dataset_id, content_type, kw) ==
    [method   |-> "get",
     resource |-> format_new_api_request(dataset_id, content_type),
     headers  |-> clear_empty_values([Accept |-> DictGet(kw, "format", None)]),
     params   |-> clear_empty_values(DictUpdate(SoqlParams(kw), Remaining(kw)))]


-----------------------------------------------------------------------------
(* The calls and the answers the model explores *)

DATASET_ID == "abcd-1234"

NoError == ""
NoRecord == <<0, 0>>
NoCall == [op |-> "none"]
NoFrame == [pc |-> "idle"]
Pending == [tag |-> "pending", value |-> None, error |-> "", arg |-> ""]
NoPage == Value("none", 0)
NoErr == [t |-> "none"]
NoClient == [t |-> "none"]
NoBlock == [pc |-> "none"]
NoServer == [kind |-> "none"]

\* the limits a caller passes to get_all: the small ones and the default page size
CallerLimits == {PyInt(n) : n \in 0..MaxLimit} \cup {PyInt(DEFAULT_LIMIT)}
CallerOffsets == {PyInt(n) : n \in 0..MaxOffset}

\* the keyword arguments of the get_all calls: limit and offset given or not,
\* and possibly a filter on a column of the dataset
GetAllKwargs ==
    {kw \in Dicts({"limit", "offset", "borough"},
                  CallerLimits \cup CallerOffsets \cup {PyStr("Bronx")}) :
        /\ "limit" \in DOMAIN kw => kw["limit"] \in CallerLimits
        /\ "offset" \in DOMAIN kw => kw["offset"] \in CallerOffsets
        /\ "borough" \in DOMAIN kw => kw["borough"] = PyStr("Bronx")}

\* the sizes of the pages the server may answer with when the limit is L: every
\* size up to one more than L for a small L, and empty, one short and full for
\* the default page size
PageSizes(L) == IF L <= MaxLimit THEN 0..(L + 1) ELSE {0, L - 1, L}

\* the statuses of an answer that carries a page
PageStatuses(L) == IF L <= MaxLimit THEN {200, 202, 301} ELSE {200}

\* the answers of the transport to a request of get_all
PagingResponses(L) ==
    {TransportError}
    \cup {HttpResponse(st, Body("json_list", n), CT_JSON) :
            st \in PageStatuses(L), n \in PageSizes(L)}
    \cup {HttpResponse(st, Body("json_object", 1), CT_JSON) : st \in {404, 500}}
    \cup {HttpResponse(200, EmptyBody, CT_JSON)}

-----------------------------------------------------------------------------
(* A server that holds a fixed list of records answers a row query with    *)
(* the records from $offset on, at most $limit of them, and at most its    *)
(* default page size when no $limit is sent.                               *)

Min(a, b) == IF a <= b THEN a ELSE b
Max(a, b) == IF a >= b THEN a ELSE b

RowServer(n) == [kind |-> "rows", records |-> n]

\* the default page size of the server: the one the comment of line 23 refers to
ServerPageSize == DEFAULT_LIMIT

\* the answer of the server to a row query
RowAnswer(srv, request) ==
    LET lim == IF "$limit" \in DOMAIN request.params
               THEN request.params["$limit"].v ELSE ServerPageSize
        off == IF "$offset" \in DOMAIN request.params
               THEN request.params["$offset"].v ELSE 0
    IN  HttpResponse(200, Body("json_list", Min(lim, Max(0, srv.records - off))),
                     CT_JSON)

\* the answers to a request of get_all: the answer of the server when there is
\* one, any answer of the transport otherwise
RowAnswers(request) ==
    IF server = NoServer THEN PagingResponses(limit.v)
                         ELSE {RowAnswer(server, request)}

-----------------------------------------------------------------------------
(* Socrata.get_all: a generator.  Its body runs only inside the consumer's *)
(* next(); it is suspended at `yield item` (line 340) between two calls.   *)
(*   gen_pc = "created"  the generator object exists, the body has not run *)
(*            "fetch"    about to call self.get (line 338)                 *)
(*            "iter"     in the for loop of lines 339-340                  *)
(*            "done"     returned (line 343)                               *)
(*            "raised"   left by an exception                              *)

InitTransport == requests = <<>> /\ responses = <<>>

InitCall == call = NoCall /\ result = Pending /\ ds = NoFrame

InitObjects == err = NoErr /\ client = NoClient /\ session = "none" /\ block = NoBlock

\* the answers are any the transport can give: no server with a fixed content
InitAnyServer == server = NoServer

InitGenerator ==
    /\ gen_pc = "created"
    /\ params = EmptyDict
    /\ limit = None
    /\ response = NoPage
    /\ idx = 0

InitConsumer ==
    /\ consumer = "idle"
    /\ nYielded = 0
    /\ lastYielded = NoRecord
    /\ asks = 0
    /\ raised = NoError

Init ==
    /\ kwargs \in GetAllKwargs
    /\ InitTransport
    /\ InitGenerator
    /\ InitConsumer
    /\ InitCall
    /\ InitObjects
    /\ InitAnyServer

\* the consumer calls next() on the generator; after the generator has ended the
\* model lets it call once more
Ask ==
    /\ consumer = "idle"
    /\ asks <= nYielded + 1
    /\ consumer' = "asking"
    /\ asks' = asks + 1
    /\ UNCHANGED <<nYielded, lastYielded, raised>>
    /\ UNCHANGED <<transportVars, genVars, callVars>>
    /\ UNCHANGED objVars
    /\ UNCHANGED server

\* the consumer stops between two records and never calls next() again
Stop ==
    /\ consumer = "idle"
    /\ consumer' = "stopped"
    /\ UNCHANGED <<nYielded, lastYielded, asks, raised>>
    /\ UNCHANGED <<transportVars, genVars, callVars>>
    /\ UNCHANGED objVars
    /\ UNCHANGED server

\* lines 331-335, run by the first next()
GenStart ==
    /\ consumer = "asking"
    /\ gen_pc = "created"
    /\ params' = IF "offset" \notin DOMAIN kwargs
                 THEN DictUpdate(kwargs, [offset |-> PyInt(0)])
                 ELSE kwargs
    /\ limit' = DictGet(kwargs, "limit", PyInt(DEFAULT_LIMIT))
    /\ gen_pc' = "fetch"
    /\ UNCHANGED <<kwargs, response, idx>>
    /\ UNCHANGED <<transportVars, consumerVars, callVars>>
    /\ UNCHANGED objVars
    /\ UNCHANGED server

\* what the generator does when self.get raises (line 338): the exception leaves
\* the generator, which is then finished
AfterRaise_retry == "fetch"

AfterRaise == "raised"

\* line 338: response = self.get(*args, **params); the transport records the
\* request and answers it
Fetch ==
    /\ consumer = "asking"
    /\ gen_pc = "fetch"
    /\ Len(requests) < MaxRequests
    /\ \E resp \in RowAnswers(GetRequest(DATASET_ID, "json", params)) :
        LET r == perform_request("get", resp) IN
        /\ requests' = Append(requests, GetRequest(DATASET_ID, "json", params))
        /\ responses' = Append(responses, resp)
        /\ IF r.tag = "raise"
           THEN /\ gen_pc' = AfterRaise
                /\ raised' = r.error
                /\ consumer' = "idle"
                /\ UNCHANGED <<response, idx>>
           ELSE /\ gen_pc' = "iter"
                /\ response' = r.value
                /\ idx' = 0
                /\ UNCHANGED <<raised, consumer>>
    /\ UNCHANGED <<kwargs, params, limit, nYielded, lastYielded, asks, callVars>>
    /\ UNCHANGED objVars
    /\ UNCHANGED server

\* who runs after `yield item` (line 340): the generator is suspended and the
\* consumer has the record
AfterYield_eager == "asking"

AfterYield == "idle"

\* lines 339-340: yield the next item of the page
Yield ==
    /\ consumer = "asking"
    /\ gen_pc = "iter"
    /\ idx < response.n
    /\ idx' = idx + 1
    /\ nYielded' = nYielded + 1
    /\ lastYielded' = <<Len(requests), idx + 1>>
    /\ consumer' = AfterYield
    /\ UNCHANGED <<kwargs, gen_pc, params, limit, response, asks, raised>>
    /\ UNCHANGED <<transportVars, callVars>>
    /\ UNCHANGED objVars
    /\ UNCHANGED server

\* the offset of the next request (line 344)
NextOffset_by_count(offset, lim, page) == PyInt(offset.v + page.n)

NextOffset_stay(offset, lim, page) == offset

NextOffset(offset, lim, page) == PyInt(offset.v + lim.v)

\* the test that ends the sequence (line 342)
ShortPage_or_equal(page, lim) == page.n <= lim.v

ShortPage_off_by_one(page, lim) == page.n + 1 < lim.v

ShortPage(page, lim) == page.n < lim.v

\* lines 342-344, after the last item of the page: len() of a bare Response is
\* a TypeError, a short page ends the generator, otherwise the offset advances
EndOfPage ==
    /\ consumer = "asking"
    /\ gen_pc = "iter"
    /\ idx = response.n
    /\ IF response.kind = "Response"
       THEN /\ gen_pc' = "raised"
            /\ raised' = "TypeError"
            /\ consumer' = "idle"
            /\ UNCHANGED params
       ELSE IF ShortPage(response, limit)
       THEN /\ gen_pc' = "done"
            /\ raised' = "StopIteration"
            /\ consumer' = "idle"
            /\ UNCHANGED params
       ELSE /\ params' = [params EXCEPT !["offset"] = NextOffset(@, limit, response)]
            /\ gen_pc' = "fetch"
            /\ UNCHANGED <<raised, consumer>>
    /\ UNCHANGED <<kwargs, limit, response, idx, nYielded, lastYielded, asks>>
    /\ UNCHANGED <<transportVars, callVars>>
    /\ UNCHANGED objVars
    /\ UNCHANGED server

\* next() on a generator that has returned or raised: StopIteration, no code runs
Exhausted ==
    /\ consumer = "asking"
    /\ gen_pc \in {"done", "raised"}
    /\ consumer' = "idle"
    /\ raised' = "StopIteration"
    /\ UNCHANGED <<nYielded, lastYielded, asks>>
    /\ UNCHANGED <<transportVars, genVars, callVars>>
    /\ UNCHANGED objVars
    /\ UNCHANGED server

Next == Ask \/ Stop \/ GenStart \/ Fetch \/ Yield \/ EndOfPage \/ Exhausted

Spec == Init /\ [][Next]_vars

-----------------------------------------------------------------------------
(* get_all against a server that holds a fixed list of records             *)

\* the lists the server may hold: the short ones, and those of about one
\* default page
ShortLists == 0..MaxTotal
LongLists == {DEFAULT_LIMIT - 1, DEFAULT_LIMIT, DEFAULT_LIMIT + 1}

\* a long list is read with pages of the default size, given or not
InitServer ==
    /\ server \in {RowServer(n) : n \in ShortLists \cup LongLists}
    /\ kwargs \in {kw \in GetAllKwargs :
                      server.records \in LongLists =>
                          DictGet(kw, "limit", PyInt(DEFAULT_LIMIT)) = PyInt(DEFAULT_LIMIT)}
    /\ InitTransport
    /\ InitGenerator
    /\ InitConsumer
    /\ InitCall
    /\ InitObjects

\* a consumer that has not stopped goes on calling next(), and the body of the
\* generator, once resumed by next(), runs on to its next yield, return or raise
SpecServer ==
    /\ InitServer
    /\ [][Next]_vars
    /\ WF_vars(Ask)
    /\ WF_vars(GenStart \/ Fetch \/ Yield \/ EndOfPage \/ Exhausted)

-----------------------------------------------------------------------------
(* Single calls on a client: get, utils.clear_empty_values and datasets.   *)
(* The state starts with no call made; one call is made and runs to its    *)
(* outcome (datasets, which may loop, one request at a time).              *)

InitCalls ==
    /\ kwargs = EmptyDict
    /\ InitTransport
    /\ InitGenerator
    /\ InitConsumer
    /\ InitCall
    /\ InitObjects
    /\ InitAnyServer

\* the option values of the calls
OptionValues == {None, PyStr(""), PyStr("x"), PyInt(0)}

\* the keyword arguments of the get calls: a recognized option, the format
\* option and a column of the dataset, each given or not
GetKwargs == Dicts({"where", "format", "borough"}, OptionValues)

\* the content-type headers of the answers
ContentTypes ==
    {<<"application/json">>,
     <<"application/json", "; charset=utf-8">>,
     <<"Application/JSON", "; Charset=UTF-8">>,
     <<" ", "application/json", " ">>,
     <<"application/json", "x">>,
     <<"application/vnd.geo+json">>,
     <<"text/csv">>,
     <<"application/rdf+xml">>,
     <<"text/plain">>,
     <<"application/octet-stream">>,
     <<>>}

ResponseHeaders == {NoHeaders} \cup {ContentType(ct) : ct \in ContentTypes}

StatusCodes == {200, 201, 202, 204, 301, 400, 404, 500, 599, 600}

Bodies ==
    {EmptyBody, Body("json_list", 2), Body("json_object", 1), Body("csv", 3),
     Body("not_json", 5)}

\* the answers of the transport to a get
GetResponses ==
    {TransportError}
    \cup {HttpResponse(st, b, h) : st \in StatusCodes, b \in Bodies, h \in ResponseHeaders}

\* the keyword arguments of the get calls that give an order, or none
OrderKwargs == Dicts({"order"}, {None, PyStr(""), PyStr(":id"), PyStr("name")})

\* constants.Formats: the MIME type of the member a content_type token names
FormatsMimetype(token) ==
    CASE token = "csv" -> "text/csv; charset=utf-8"
      [] token = "json" -> "application/json; charset=utf-8"
      [] token = "rdfxml" -> "application/rdf+xml; charset=utf-8"
      [] token = "xml" -> "text/xml; charset=utf-8"

\* the content_type tokens of the get calls
ContentTypeTokens == {"csv", "json", "rdfxml", "xml", "error"}

\* the get calls: <<kwargs, content_type>>
GetCalls ==
    (GetKwargs \X {"json", "csv"})
    \cup (OrderKwargs \X {"json"})
    \cup ({EmptyDict, [format |-> PyStr("text/csv")]} \X ContentTypeTokens)

\* Socrata.get (lines 298-319): build the request, hand it to _perform_request,
\* return or raise what it returns or raises
CallGet ==
    /\ call = NoCall
    /\ \E c \in GetCalls, resp \in GetResponses :
        LET kw == c[1]
            content_type == c[2]
        IN  /\ call' = [op |-> "get", kwargs |-> kw, content_type |-> content_type]
            /\ requests' = Append(requests, GetRequest(DATASET_ID, content_type, kw))
            /\ responses' = Append(responses, resp)
            /\ result' = perform_request("get", resp)
    /\ UNCHANGED <<ds, genVars, consumerVars>>
    /\ UNCHANGED objVars
    /\ UNCHANGED server

\* utils.clear_empty_values on a dict
PruneArgs == Dicts({"a", "b", "c"}, OptionValues \cup {PyBool(FALSE)})

CallClearEmptyValues ==
    /\ call = NoCall
    /\ \E args \in PruneArgs :
        /\ call' = [op |-> "clear_empty_values", args |-> args]
        /\ result' = Return(clear_empty_values(args))
    /\ UNCHANGED <<ds, transportVars, genVars, consumerVars>>
    /\ UNCHANGED objVars
    /\ UNCHANGED server

-----------------------------------------------------------------------------
(* Socrata.datasets(limit, offset, order, **kwargs)                        *)

\* lines 157-186
filter_multiple ==
    {"ids", "domains", "categories", "tags", "only", "shared_to", "column_names"}

filter_single ==
    {"q", "min_should_match", "attribution", "license", "derived_from",
     "provenance", "for_user", "visibility", "public", "published",
     "approval_status", "explicitly_hidden", "derived"}

all_filters_with_tag == filter_multiple \cup filter_single \cup {"tag"}

all_filters == filter_multiple \cup filter_single

\* lines 187-189: the first key of kwargs that is not a filter, 0 when none
FirstUnexpected(kw) ==
    IF \E i \in 1..Len(kw) : kw[i][1] \notin all_filters
    THEN CHOOSE i \in 1..Len(kw) :
            /\ kw[i][1] \notin all_filters
            /\ \A j \in 1..(i - 1) : kw[j][1] \in all_filters
    ELSE 0

\* lines 194-198: the parameters of one keyword argument
FilterPairs_joined(key, value) ==
    IF key \in filter_multiple
    THEN <<(<<key, [t |-> "str", v |-> "joined", parts |-> value]>>)>>
    ELSE IF key \in filter_single
    THEN <<(<<key, value>>)>>
    ELSE <<>>

FilterPairs(key, value) ==
    IF key \in filter_multiple
    THEN [i \in 1..Len(value) |-> <<key, value[i]>>]
    ELSE IF key \in filter_single
    THEN <<(<<key, value>>)>>
    ELSE <<>>

\* lines 193-198: the parameters of the filters, in the order of kwargs
RECURSIVE FilterParams(_)
FilterParams(kw) ==
    IF kw = <<>> THEN <<>>
    ELSE FilterPairs(Head(kw)[1], Head(kw)[2]) \o FilterParams(Tail(kw))

\* lines 190-203: the parameters without the offset
DatasetsParams(domain, lim, order, kw) ==
    <<(<<"domains", PyStr(domain)>>)>>
    \o (IF lim # 0 THEN <<(<<"limit", PyInt(lim)>>)>> ELSE <<>>)
    \o FilterParams(kw)
    \o (IF order # "" THEN <<(<<"order", PyStr(order)>>)>> ELSE <<>>)

\* lines 205, 220: the request of one catalog page
DatasetsRequest(ps, offset) ==
    [method   |-> "get",
     resource |-> DATASETS_PATH,
     headers  |-> EmptyDict,
     params   |-> ps \o <<(<<"offset", PyInt(offset)>>)>>]

DOMAIN_NAME == "data.example.org"

\* the keyword arguments of the datasets calls, in the order given: filters
\* and names that are not filters
DsPairs ==
    {<<"tags", <<PyStr("a"), PyStr("b")>> >>,
     <<"tags", <<PyStr("a")>> >>,
     <<"only", <<PyStr("dataset")>> >>,
     <<"domains", <<PyStr("other.example.org")>> >>,
     <<"q", PyStr("x")>>,
     <<"tag", PyStr("a")>>,
     <<"colour", PyStr("x")>>}

MaxKwargs == 2

DsKwargs ==
    {kw \in UNION {[1..n -> DsPairs] : n \in 0..MaxKwargs} :
        \A i, j \in 1..Len(kw) : i # j => kw[i][1] # kw[j][1]}

\* the answers of the catalog to a request at `offset`: a reported total among
\* `totals` and any number of entries, the entries being those from the offset on
CatalogResponses(offset, totals) ==
    {TransportError, HttpResponse(404, Body("json_object", 1), CT_JSON),
     HttpResponse(200, EmptyBody, CT_JSON),
     HttpResponse(200, Body("json_list", 1), CT_JSON)}
    \cup {HttpResponse(200, CatalogBody(total, [i \in 1..n |-> offset + i]), CT_JSON) :
            total \in totals, n \in 0..MaxTotal}

\* the offset parameter of a catalog request: the last of its parameters
RequestOffset(request) == request.params[Len(request.params)][2].v

\* A catalog that holds a fixed list of entries reports the length of the list
\* as resultSetSize in every answer and returns the entries from the offset on:
\* at most `limit` of them when the request carries a limit, at most its own
\* page size when it does not.
CatalogServer(entries, page) == [kind |-> "catalog", entries |-> entries, page |-> page]

\* the answer of the catalog to a request
CatalogAnswer(srv, request) ==
    LET limits == {request.params[i][2].v :
                      i \in {j \in 1..Len(request.params) : request.params[j][1] = "limit"}}
        lim == IF limits = {} THEN srv.page ELSE CHOOSE l \in limits : TRUE
        off == RequestOffset(request)
        n   == Min(lim, Max(0, srv.entries - off))
    IN  HttpResponse(200, CatalogBody(srv.entries, [i \in 1..n |-> off + i]), CT_JSON)

\* the answers to a request of datasets: the answer of the catalog when there is
\* one, otherwise any answer of the transport that reports one of these totals
CatalogAnswers(request, totals) ==
    IF server = NoServer THEN CatalogResponses(RequestOffset(request), totals)
                         ELSE {CatalogAnswer(server, request)}

\* the offsets of the datasets calls; against a catalog, up to the end of its list
CallOffsets == IF server = NoServer THEN 0..MaxOffset ELSE 0..MaxTotal

ListValue(items) == [kind |-> "list", n |-> Len(items), items |-> items]

\* results["resultSetSize"], results["results"] work on the decoded value
IsCatalog(value) == value.kind = "dict" /\ "resultSetSize" \in DOMAIN value

\* line 208: no more results to fetch, or limit reached
FirstPageEnds(lim, num_results, results) ==
    \/ lim >= num_results
    \/ lim = Len(results)
    \/ num_results = Len(results)

\* line 211: a limit was given and the answer has another number of results
UnexpectedCount_never(lim) == FALSE

UnexpectedCount(lim) == lim # 0

\* lines 187-217: validation, the first request, and what is done with its answer
CallDatasets ==
    /\ call = NoCall
    /\ \E lim \in 0..MaxLimit, offset \in CallOffsets, order \in {"", "name"},
          kw \in DsKwargs :
        /\ call' = [op |-> "datasets", limit |-> lim, offset |-> offset,
                    order |-> order, kwargs |-> kw]
        /\ IF FirstUnexpected(kw) # 0
           THEN /\ result' = RaiseArg("TypeError", kw[FirstUnexpected(kw)][1])
                /\ UNCHANGED <<requests, responses, ds>>
           ELSE \E resp \in CatalogAnswers(DatasetsRequest(
                                     DatasetsParams(DOMAIN_NAME, lim, order, kw), offset),
                                   0..MaxTotal) :
                LET ps == DatasetsParams(DOMAIN_NAME, lim, order, kw)
                    r == perform_request("get", resp)
                IN  /\ requests' = Append(requests, DatasetsRequest(ps, offset))
                    /\ responses' = Append(responses, resp)
                    /\ IF r.tag = "raise"
                       THEN result' = r /\ UNCHANGED ds
                       ELSE IF ~IsCatalog(r.value)
                       THEN result' = Raise("TypeError") /\ UNCHANGED ds
                       ELSE LET num_results == r.value.resultSetSize
                                results == r.value.results
                            IN  IF FirstPageEnds(lim, num_results, results)
                                THEN result' = Return(ListValue(results)) /\ UNCHANGED ds
                                ELSE IF UnexpectedCount(lim)
                                THEN /\ result' = Raise("Unexpected number of results")
                                     /\ UNCHANGED ds
                                ELSE /\ ds' = [pc |-> "loop", params |-> ps,
                                               offset |-> offset,
                                               num_results |-> num_results,
                                               results |-> results,
                                               all_results |-> results]
                                     /\ UNCHANGED result
    /\ UNCHANGED <<genVars, consumerVars>>
    /\ UNCHANGED objVars
    /\ UNCHANGED server

\* lines 218-223: one turn of the loop that gets the remaining results, and
\* the test of the loop after it; the loop does not read resultSetSize again,
\* the catalog goes on reporting the total of its first answer
DatasetsLoop ==
    /\ ds.pc = "loop"
    /\ Len(requests) < MaxRequests
    /\ LET offset == ds.offset + Len(ds.results) IN
       \E resp \in CatalogAnswers(DatasetsRequest(ds.params, offset), {ds.num_results}) :
        LET r == perform_request("get", resp) IN
        /\ requests' = Append(requests, DatasetsRequest(ds.params, offset))
        /\ responses' = Append(responses, resp)
        /\ IF r.tag = "raise"
           THEN result' = r /\ ds' = [pc |-> "done"]
           ELSE IF ~IsCatalog(r.value)
           THEN result' = Raise("TypeError") /\ ds' = [pc |-> "done"]
           ELSE LET all_results == ds.all_results \o r.value.results IN
                IF Len(all_results) = ds.num_results
                THEN result' = Return(ListValue(all_results)) /\ ds' = [pc |-> "done"]
                ELSE /\ ds' = [ds EXCEPT !.offset = offset,
                                         !.results = r.value.results,
                                         !.all_results = all_results]
                     /\ UNCHANGED result
    /\ UNCHANGED <<call, genVars, consumerVars>>
    /\ UNCHANGED objVars
    /\ UNCHANGED server

NextCalls == CallGet \/ CallClearEmptyValues \/ CallDatasets \/ DatasetsLoop

SpecCalls == InitCalls /\ [][NextCalls]_vars

-----------------------------------------------------------------------------
(* datasets against a catalog that holds a fixed list of entries           *)

InitCatalog ==
    /\ server \in {CatalogServer(t, p) : t \in 0..MaxTotal, p \in 1..MaxTotal}
    /\ kwargs = EmptyDict
    /\ InitTransport
    /\ InitGenerator
    /\ InitConsumer
    /\ InitCall
    /\ InitObjects

NextCatalog == CallDatasets \/ DatasetsLoop

SpecCatalog == InitCatalog /\ [][NextCatalog]_vars

-----------------------------------------------------------------------------
(* sodapy2/response.py: SodaResponse.raise_for_status and SodaHTTPError    *)
(*                                                                         *)
(* A dict value is [t |-> "dict", v |-> d] and a list value                *)
(* [t |-> "list", v |-> n].  A str that holds a JSON document carries the  *)
(* document json.loads gives for it in the field doc; every other str is   *)
(* rejected by json.loads.                                                 *)

PyDict(d) == [t |-> "dict", v |-> d]
PyList(n) == [t |-> "list", v |-> n]
JsonText(doc) == [t |-> "str", v |-> "json", doc |-> doc]

\* isinstance(value, str)
IsStr(value) == value.t = "str"

\* json.loads(text): the document, or json.JSONDecodeError
json_loads(text) ==
    IF "doc" \in DOMAIN text THEN Return(text.doc) ELSE Raise("JSONDecodeError")

\* str(n) of a natural number, as f"{n}" formats it
Digit(d) ==
    CASE d = 0 -> "0" [] d = 1 -> "1" [] d = 2 -> "2" [] d = 3 -> "3" [] d = 4 -> "4"
      [] d = 5 -> "5" [] d = 6 -> "6" [] d = 7 -> "7" [] d = 8 -> "8" [] d = 9 -> "9"

RECURSIVE StrOfInt(_)
StrOfInt(n) == IF n < 10 THEN <<Digit(n)>> ELSE StrOfInt(n \div 10) \o <<Digit(n % 10)>>

\* SodaHTTPError.__init__ (lines 46-57): error_detail after the constructor
ParsedDetail(detail) ==
    IF IsStr(detail)
    THEN IF json_loads(detail).tag = "return" THEN json_loads(detail).value
                                              ELSE detail     \* except ...: pass
    ELSE detail

\* SodaHTTPError(status_code, reason, **kw) (lines 32-57)
SodaHTTPError(status_code, reason, kw) ==
    [status_code  |-> status_code,
     reason       |-> reason,
     request_url  |-> DictGet(kw, "request_url", PyStr("")),
     error_detail |-> ParsedDetail(DictGet(kw, "error_detail", PyDict(EmptyDict)))]

\* the conditions of __str__ (lines 60 and 66)
IsClientError_inclusive(status_code) == 400 <= status_code /\ status_code <= 500

IsClientError(status_code) == 400 <= status_code /\ status_code < 500

IsServerError(status_code) == 500 <= status_code /\ status_code < 600

\* `if self.request_url:` (lines 62 and 68)
Truthy(value) ==
    CASE value.t = "None" -> FALSE
      [] value.t = "str" -> value.v # ""
      [] value.t = "int" -> value.v # 0
      [] value.t = "bool" -> value.v
      [] OTHER -> TRUE

\* SodaHTTPError.__str__ (lines 59-74): the pieces of the message, in order
ErrorStr(e) ==
    LET head(kind) == <<kind>> \o StrOfInt(e.status_code) \o <<": ", e.reason>>
        tail == IF Truthy(e.request_url)
                THEN <<" for url ", e.request_url.v, ". See error_detail.">>
                ELSE <<". See error_detail.">>
    IN  IF IsClientError(e.status_code) THEN head("Client Error ") \o tail
        ELSE IF IsServerError(e.status_code) THEN head("Server Error ") \o tail
        ELSE head("Undefined Error ")

\* value.get(key, default) on whatever value is: only a dict has .get
PyGet(value, key, default) ==
    IF value.t = "dict" THEN Return(DictGet(value.v, key, default))
                        ELSE Raise("AttributeError")

\* the properties code, error, message and query (lines 76-91)
ErrorProperty(e, name) ==
    CASE name = "code" -> PyGet(e.error_detail, "code", PyStr(""))
      [] name = "error" -> PyGet(e.error_detail, "error", PyBool(TRUE))
      [] name = "message" -> PyGet(e.error_detail, "message", PyStr(""))
      [] name = "query" ->
            LET data == PyGet(e.error_detail, "data", PyDict(EmptyDict))
            IN  IF data.tag = "raise" THEN data
                ELSE PyGet(data.value, "query", PyStr(""))

ErrorProperties == {"code", "error", "message", "query"}

\* the statuses, reasons and URLs the errors are built with
ErrorStatuses == {200, 300, 399, 400, 404, 499, 500, 502, 599, 600}
Reasons == {"Not Found", "Bad Gateway"}
REQUEST_URL == "https://example.com/"

\* the payload Socrata sends with an error, and parts of it
FullDetail ==
    [k \in {"code", "error", "message", "data"} |->
        CASE k = "code" -> PyStr("query.compiler.malformed")
          [] k = "error" -> PyBool(TRUE)
          [] k = "message" -> PyStr("Could not parse SoQL query")
          [] k = "data" -> PyDict([q \in {"query"} |-> PyStr("select *")])]

DetailDicts ==
    {FullDetail, EmptyDict,
     [k \in {"message"} |-> PyStr("Could not parse SoQL query")],
     [k \in {"data"} |-> PyDict(EmptyDict)]}

\* the error_detail values: dicts, the texts of JSON objects, the text of a
\* JSON array, a text that is no JSON, and the empty text
ErrorDetails ==
    {PyDict(d) : d \in DetailDicts}
    \cup {JsonText(PyDict(d)) : d \in DetailDicts}
    \cup {JsonText(PyList(1)), PyStr("<html>Bad Gateway</html>"), PyStr("")}

\* the keyword arguments of the constructor
ErrorKwargs ==
    {kw \in Dicts({"request_url", "error_detail"},
                  {PyStr(""), PyStr(REQUEST_URL)} \cup ErrorDetails) :
        /\ "request_url" \in DOMAIN kw => kw["request_url"] \in {PyStr(""), PyStr(REQUEST_URL)}
        /\ "error_detail" \in DOMAIN kw => kw["error_detail"] \in ErrorDetails}

\* the bodies of the answers raise_for_status is called on
ErrorTexts == {d \in ErrorDetails : IsStr(d)}

\* raise SodaHTTPError(status_code, reason, **kw)
NewError ==
    /\ call = NoCall
    /\ \E status_code \in ErrorStatuses, reason \in Reasons, kw \in ErrorKwargs :
        /\ call' = [op |-> "SodaHTTPError", kwargs |-> kw]
        /\ err' = SodaHTTPError(status_code, reason, kw)
        /\ result' = Raise("SodaHTTPError")
    /\ UNCHANGED <<ds, client, session, block, transportVars, genVars, consumerVars>>
    /\ UNCHANGED server

\* SodaResponse.raise_for_status (lines 17-26) on an answer with this status,
\* reason, url and text
ResponseRaiseForStatus ==
    /\ call = NoCall
    /\ \E status_code \in ErrorStatuses, reason \in Reasons, text \in ErrorTexts :
        /\ call' = [op |-> "raise_for_status", status_code |-> status_code, text |-> text]
        /\ IF 400 <= status_code /\ status_code < 600
           THEN /\ err' = SodaHTTPError(status_code, reason,
                              [k \in {"request_url", "error_detail"} |->
                                  IF k = "request_url" THEN PyStr(REQUEST_URL) ELSE text])
                /\ result' = Raise("SodaHTTPError")
           ELSE /\ err' = err
                /\ result' = Return(None)
    /\ UNCHANGED <<ds, client, session, block, transportVars, genVars, consumerVars>>
    /\ UNCHANGED server

\* str(e) on the error that was raised
ErrorToStr ==
    /\ err # NoErr
    /\ call' = [op |-> "str"]
    /\ result' = Return(ErrorStr(err))
    /\ UNCHANGED <<ds, err, client, session, block, transportVars, genVars, consumerVars>>
    /\ UNCHANGED server

\* e.code, e.error, e.message or e.query on the error that was raised
ReadProperty ==
    /\ err # NoErr
    /\ \E name \in ErrorProperties :
        /\ call' = [op |-> "property", name |-> name]
        /\ result' = ErrorProperty(err, name)
    /\ UNCHANGED <<ds, err, client, session, block, transportVars, genVars, consumerVars>>
    /\ UNCHANGED server

NextError == NewError \/ ResponseRaiseForStatus \/ ErrorToStr \/ ReadProperty

SpecError == InitCalls /\ [][NextError]_vars

-----------------------------------------------------------------------------
(* Socrata.__init__, __enter__, __exit__ and close (socrata.py lines       *)
(* 26-95 and 389-393).  A float is [t |-> "float", v |-> tenths].          *)

PyFloat(tenths) == [t |-> "float", v |-> tenths]

\* isinstance(value, (int, float)); a bool is an int
IsNumeric(value) == value.t \in {"int", "float", "bool"}

\* utils.authentication_validation (utils.py lines 55-62): does it raise
authentication_validation(username, password, access_token) ==
    \/ Truthy(username) # Truthy(password)
    \/ (Truthy(username) /\ Truthy(access_token))
    \/ (Truthy(password) /\ Truthy(access_token))

\* the session of lines 64-76: its headers and its auth
NewSession(app_token, username, password, access_token) ==
    [headers |->
        DictUpdate(IF Truthy(app_token) THEN [h \in {"X-App-token"} |-> app_token]
                                        ELSE EmptyDict,
                   IF ~(Truthy(username) /\ Truthy(password)) /\ Truthy(access_token)
                   THEN [h \in {"Authorization"} |-> access_token]
                   ELSE EmptyDict),
     auth |-> IF Truthy(username) /\ Truthy(password)
              THEN [t |-> "tuple", v |-> <<username, password>>]
              ELSE None]

\* Socrata.__init__ (lines 59-83) without a session_adapter: what it raises or
\* the client it leaves, and whether a session was created on the way
Construct(a) ==
    IF ~Truthy(a.domain)
    THEN [result |-> Raise("Exception"), session |-> "none", client |-> NoClient]
    ELSE IF authentication_validation(a.username, a.password, a.access_token)
    THEN [result |-> Raise("Exception"), session |-> "open", client |-> NoClient]
    ELSE IF ~IsNumeric(a.timeout)
    THEN [result |-> Raise("TypeError"), session |-> "open", client |-> NoClient]
    ELSE [result |-> Return(Value("Socrata", 0)), session |-> "open",
          client |-> [domain  |-> a.domain,
                      timeout |-> a.timeout,
                      session |-> NewSession(a.app_token, a.username, a.password,
                                             a.access_token)]]

\* Socrata.close (lines 389-393): the session after self.session.close()
close_noop(s) == s

close(s) == "closed"

\* what __exit__ returns (lines 91-95): nothing, so the exception is not swallowed
ExitReturn == None

\* the constructor arguments the model explores
Domains == {None, PyStr(""), PyStr("data.example.org")}
Tokens == {None, PyStr("token")}
Timeouts ==
    {PyInt(10), PyInt(1), PyInt(0), PyInt(-1), PyFloat(5), PyFloat(-5),
     PyStr("fail"), None}

ClientArgs ==
    [domain : Domains, app_token : Tokens, username : Tokens, password : Tokens,
     access_token : Tokens, timeout : Timeouts]

\* how the body of a with block ends
BlockEnds == {"normal", "exception", "return"}

\* Socrata(domain, app_token, ...), alone or as the expression of a with statement
NewClient ==
    /\ call = NoCall
    /\ \E a \in ClientArgs :
        /\ call' = [op |-> "Socrata", args |-> a]
        /\ result' = Construct(a).result
        /\ session' = Construct(a).session
        /\ client' = Construct(a).client
    /\ UNCHANGED <<ds, err, block, transportVars, genVars, consumerVars>>
    /\ UNCHANGED server

\* __enter__ (lines 85-89): the block starts with the client itself
Enter ==
    /\ client # NoClient
    /\ block = NoBlock
    /\ block' = [pc |-> "inside"]
    /\ UNCHANGED <<callVars, err, client, session, transportVars, genVars, consumerVars>>
    /\ UNCHANGED server

\* the body ends, normally, with an exception or with a return, and __exit__
\* (lines 91-95) runs: it closes the client and returns
LeaveBlock ==
    /\ block = [pc |-> "inside"]
    /\ \E how \in BlockEnds :
        block' = [pc |-> "exited", how |-> how,
                  propagated |-> how = "exception" /\ ~Truthy(ExitReturn)]
    /\ session' = close(session)
    /\ UNCHANGED <<callVars, err, client, transportVars, genVars, consumerVars>>
    /\ UNCHANGED server

\* client.close() called by the caller
Close ==
    /\ client # NoClient
    /\ session' = close(session)
    /\ UNCHANGED <<callVars, err, client, block, transportVars, genVars, consumerVars>>
    /\ UNCHANGED server

NextClient == NewClient \/ Enter \/ LeaveBlock \/ Close

SpecClient == InitCalls /\ [][NextClient]_vars

-----------------------------------------------------------------------------
(* What the recording transport and the consumer have seen of a get_all    *)

\* the limit the caller asked for: the one given, or the default page size
RequestedLimit == DictGet(kwargs, "limit", PyInt(DEFAULT_LIMIT)).v

\* the $offset parameter of the k-th request
ReqOffset(k) == requests[k].params["$offset"].v

\* the k-th answer carried a page: a JSON array that get returned
IsPage(k) ==
    /\ ~responses[k].exc
    /\ responses[k].body.fmt = "json_list"
    /\ ~(400 <= responses[k].status_code /\ responses[k].status_code < 600)

\* the number of records of the k-th page
PageCount(k) == responses[k].body.n

\* the k-th request failed: a failure of the transport or an error status
RequestFailed(k) ==
    \/ responses[k].exc
    \/ (400 <= responses[k].status_code /\ responses[k].status_code < 600)

\* the number of records of the pages 1..k
RECURSIVE SumPages(_)
SumPages(k) == IF k = 0 THEN 0
               ELSE SumPages(k - 1) + (IF IsPage(k) THEN PageCount(k) ELSE 0)

\* every answer so far is a page, and every page but the last is exactly full
RegularRun ==
    /\ \A k \in 1..Len(responses) : IsPage(k) /\ PageCount(k) <= RequestedLimit
    /\ \A k \in 1..(Len(responses) - 1) : PageCount(k) = RequestedLimit

-----------------------------------------------------------------------------
(* C1: with a limit L >= 1 and no caller offset, while every page but the  *)
(* last holds exactly L records and the last at most L, the requests are   *)
(* at the offsets 0, L, 2L, ... in that order, the generator does not fail,*)
(* it does not end before a page of fewer than L records has come, after   *)
(* such a page it ends without another request, and when it has ended the  *)
(* number of records yielded is the sum of the page sizes.                 *)
C1_RegularPaging ==
    (/\ RequestedLimit >= 1
     /\ "offset" \notin DOMAIN kwargs
     /\ RegularRun)
    =>
    /\ \A k \in 1..Len(requests) : ReqOffset(k) = (k - 1) * RequestedLimit
    /\ gen_pc # "raised"
    /\ gen_pc = "done" =>
          /\ Len(requests) >= 1
          /\ PageCount(Len(requests)) < RequestedLimit
          /\ nYielded = SumPages(Len(requests))
    /\ (Len(requests) >= 1 /\ PageCount(Len(requests)) < RequestedLimit) =>
          gen_pc \in {"iter", "done"}

\* pages of 1000, 1000 and 999 records with limit=1000: three requests, 2999 records
C1_Witness ==
    /\ "limit" \in DOMAIN kwargs
    /\ "offset" \notin DOMAIN kwargs
    /\ RequestedLimit = DEFAULT_LIMIT
    /\ RegularRun
    /\ gen_pc = "done"
    /\ Len(requests) = 3
    /\ ReqOffset(3) = 2 * DEFAULT_LIMIT
    /\ nYielded = 3 * DEFAULT_LIMIT - 1

(* C2: once a fetched page holds strictly fewer records than the requested *)
(* limit, no request is issued after it, and when the generator has ended  *)
(* every record of that page has been yielded.                             *)
C2_ShortPageEnds ==
    \A k \in 1..Len(responses) :
        (IsPage(k) /\ PageCount(k) < RequestedLimit) =>
            /\ k = Len(requests)
            /\ gen_pc \in {"iter", "done"}
            /\ gen_pc = "done" =>
                  /\ idx = PageCount(k)
                  /\ nYielded = SumPages(k)
                  /\ (PageCount(k) > 0 => lastYielded = <<k, PageCount(k)>>)

\* a short first page: its one record is yielded and there is one request
C2_Witness ==
    /\ RequestedLimit = 2
    /\ Len(requests) = 1
    /\ IsPage(1) /\ PageCount(1) = 1
    /\ gen_pc = "done"
    /\ nYielded = 1
    /\ lastYielded = <<1, 1>>

(* C3 as stated: the offset of each request after the first is the offset  *)
(* of the request before it plus the number of records its page held.      *)
C3_AdvanceByCount ==
    \A k \in 2..Len(requests) : ReqOffset(k) = ReqOffset(k - 1) + PageCount(k - 1)

(* C3 amended: the offset of each request after the first is the offset of *)
(* the request before it plus the requested limit, whatever the number of  *)
(* records the page held.                                                  *)
C3_AdvanceByLimit ==
    \A k \in 2..Len(requests) : ReqOffset(k) = ReqOffset(k - 1) + RequestedLimit

\* a page larger than the limit was followed by a request one limit further
C3_Witness ==
    /\ Len(requests) >= 2
    /\ IsPage(1)
    /\ RequestedLimit >= 1
    /\ PageCount(1) > RequestedLimit
    /\ ReqOffset(2) = ReqOffset(1) + RequestedLimit

(* C4 as stated: for every limit, when the first page holds zero records   *)
(* nothing is yielded and there is exactly one request.                    *)
C4_EmptyFirstPageEnds ==
    (Len(responses) >= 1 /\ IsPage(1) /\ PageCount(1) = 0) =>
        /\ Len(requests) = 1
        /\ nYielded = 0
        /\ gen_pc \in {"iter", "done"}

(* C5: a request is issued only inside a next() call of the consumer, and  *)
(* only inside the call that asks for the record after all those of the    *)
(* pages fetched so far; no request is issued before the first call, nor   *)
(* after the consumer has stopped.                                         *)
C5_LazySequential ==
    /\ [][requests' # requests =>
            /\ consumer = "asking"
            /\ asks = nYielded + 1
            /\ nYielded = SumPages(Len(requests))]_vars
    /\ [](asks = 0 => requests = <<>>)
    /\ [][consumer = "stopped" => requests' = requests /\ consumer' = "stopped"]_vars

\* the consumer stopped inside the second page of three records, two requests so far
C5_Witness ==
    /\ consumer = "stopped"
    /\ Len(requests) = 2
    /\ gen_pc = "iter"
    /\ response.n = 3
    /\ idx = 1
    /\ nYielded = PageCount(1) + 1

C7_OnlyOkReturns ==
    (call.op = "get" /\ ~responses[1].exc) =>
        /\ responses[1].status_code \notin {200, 202} => result.tag = "raise"
        /\ result.tag = "return" => responses[1].status_code \in {200, 202}

(* C8 as stated: a row-query call with an option key outside the fixed set *)
(* of recognized options fails and no request reaches the transport.       *)
C8_UnknownKeyRejected ==
    /\ (call.op = "get" /\ ~(DOMAIN call.kwargs \subseteq SoqlOptions \cup {"format"})) =>
          requests = <<>> /\ result.tag = "raise"
    /\ (gen_pc # "created" /\ ~(DOMAIN kwargs \subseteq SoqlOptions \cup {"format"})) =>
          requests = <<>> /\ gen_pc = "raised"

(* C8 amended: a row-query call (get, and each page of get_all) does not   *)
(* reject an option key outside the fixed set: the request is sent, and it *)
(* carries the key under its own name with its value as a query parameter, *)
(* unless the value is None, in which case the key is left out.            *)
C8_UnknownKeyPassedThrough ==
    /\ call.op = "get" =>
          /\ Len(requests) = 1
          /\ \A key \in DOMAIN call.kwargs \ (SoqlOptions \cup {"format"}) :
                IF call.kwargs[key] = None
                THEN key \notin DOMAIN requests[1].params
                ELSE /\ key \in DOMAIN requests[1].params
                     /\ requests[1].params[key] = call.kwargs[key]
    /\ gen_pc \notin {"created", "fetch"} => Len(requests) >= 1
    /\ \A k \in 1..Len(requests) :
          \A key \in DOMAIN kwargs \ (SoqlOptions \cup {"format"}) :
              /\ key \in DOMAIN requests[k].params
              /\ requests[k].params[key] = kwargs[key]

\* a get with a column filter went to the transport with the filter and returned
C8_Witness ==
    /\ call.op = "get"
    /\ "borough" \in DOMAIN call.kwargs
    /\ call.kwargs["borough"] = PyStr("x")
    /\ Len(requests) = 1
    /\ requests[1].params["borough"] = PyStr("x")
    /\ result.tag = "return"

\* the keys of a datasets call that are not filter names
UnknownFilters(kw) ==
    {kw[i][1] : i \in {j \in 1..Len(kw) : kw[j][1] \notin filter_multiple \cup filter_single}}

(* C9: a dataset-discovery call with a keyword option outside the union of *)
(* the repeatable and the single-value filter names fails with a TypeError *)
(* that names such a key (the first one in the order given), and no        *)
(* request has been sent.                                                  *)
C9_UnknownFilterRejected ==
    (call.op = "datasets" /\ UnknownFilters(call.kwargs) # {}) =>
        /\ requests = <<>>
        /\ result.tag = "raise"
        /\ result.error = "TypeError"
        /\ result.arg \in UnknownFilters(call.kwargs)
        /\ \E i \in 1..Len(call.kwargs) :
              /\ call.kwargs[i][1] = result.arg
              /\ \A j \in 1..(i - 1) : call.kwargs[j][1] \notin UnknownFilters(call.kwargs)

\* a call with a filter and then a misspelt filter failed naming the misspelt one
C9_Witness ==
    /\ call.op = "datasets"
    /\ Len(call.kwargs) = 2
    /\ call.kwargs[1][1] = "q"
    /\ call.kwargs[2][1] = "tag"
    /\ result = RaiseArg("TypeError", "tag")
    /\ requests = <<>>

(* C10: the pruning step removes exactly the entries whose value is None:  *)
(* its output has the keys of the input whose value is not None, each with *)
(* its value unchanged ("", 0 and False included), and no other key; so a  *)
(* row-query option set to "" is sent and one set to None or absent is not.*)
C10_PruneOnlyNone ==
    /\ call.op = "clear_empty_values" =>
          /\ \A key \in DOMAIN call.args :
                IF call.args[key] = None
                THEN key \notin DOMAIN result.value
                ELSE key \in DOMAIN result.value /\ result.value[key] = call.args[key]
          /\ DOMAIN result.value \subseteq DOMAIN call.args
    /\ call.op = "get" =>
          /\ ("where" \in DOMAIN call.kwargs /\ call.kwargs["where"] # None) =>
                /\ "$where" \in DOMAIN requests[1].params
                /\ requests[1].params["$where"] = call.kwargs["where"]
          /\ ("where" \notin DOMAIN call.kwargs \/ call.kwargs["where"] = None) =>
                "$where" \notin DOMAIN requests[1].params
          /\ \A opt \in SoqlOptions \ DOMAIN call.kwargs :
                SoqlName(opt) \notin DOMAIN requests[1].params

\* "", 0 and False were kept and the None entry was dropped
C10_Witness ==
    /\ call.op = "clear_empty_values"
    /\ call.args = [a |-> PyStr(""), b |-> None, c |-> PyInt(0)]
    /\ result.value = [a |-> PyStr(""), c |-> PyInt(0)]

(* C11 as stated: every row-query request carries an order parameter, the  *)
(* row-identifier ordering when the caller gave no order and the caller's  *)
(* value (the empty string included) when the caller gave one; so does     *)
(* every request of a get_all called without an order.                     *)
C11_OrderAlwaysSent ==
    /\ call.op = "get" =>
          /\ "$order" \in DOMAIN requests[1].params
          /\ requests[1].params["$order"] =
                IF "order" \in DOMAIN call.kwargs /\ call.kwargs["order"] # None
                THEN call.kwargs["order"]
                ELSE PyStr(":id")
    /\ \A k \in 1..Len(requests) :
          (gen_pc # "created" /\ "order" \notin DOMAIN kwargs) =>
              /\ "$order" \in DOMAIN requests[k].params
              /\ requests[k].params["$order"] = PyStr(":id")

(* C12 as stated: for a 200 or 202 answer with a non-empty body the decode *)
(* is fixed by the lower-cased content-type without its parameters:        *)
(* application/json and application/vnd.geo+json give the parsed JSON,     *)
(* text/csv the rows, application/rdf+xml the raw bytes, text/plain the    *)
(* JSON when the body parses and the text otherwise; every other           *)
(* content-type, one that merely starts with a listed type and a missing   *)
(* header included, fails with the unknown-format error.                   *)
C12_DecodeByExactType ==
    (/\ call.op = "get"
     /\ ~responses[1].exc
     /\ responses[1].status_code \in {200, 202}
     /\ responses[1].body.fmt # "empty") =>
        LET resp == responses[1]
            body == resp.body
            ct   == IF "content-type" \in DOMAIN resp.headers
                    THEN Lower(Strip(resp.headers["content-type"]))
                    ELSE <<>>
            Is(types) == /\ ct # <<>>
                         /\ ct[1] \in types
                         /\ Len(ct) > 1 => ct[2] = "; charset=utf-8"
        IN  IF Is({"application/json", "application/vnd.geo+json"})
            THEN IsJson(body) => result = Return(JsonValue(body))
            ELSE IF Is({"text/csv"})
            THEN result = Return(CsvRows(body))
            ELSE IF Is({"application/rdf+xml"})
            THEN result = Return(Value("bytes", body.n))
            ELSE IF Is({"text/plain"})
            THEN result = IF IsJson(body) THEN Return(JsonValue(body))
                                          ELSE Return(Value("str", body.n))
            ELSE result = Raise("Unknown response format")

(* C13: a 200 or 202 answer whose body is empty is returned as the         *)
(* response object itself: the call does not raise, and the content-type   *)
(* header, present or not, recognized or not, plays no part.               *)
C13_EmptyBodyReturnsResponse ==
    (/\ call.op = "get"
     /\ ~responses[1].exc
     /\ responses[1].status_code \in {200, 202}
     /\ responses[1].body.fmt = "empty") =>
        result = Return(Value("Response", 0))

\* a 202 answer with an empty body and no content-type header was returned
C13_Witness ==
    /\ call.op = "get"
    /\ ~responses[1].exc
    /\ responses[1].status_code = 202
    /\ responses[1].body.fmt = "empty"
    /\ responses[1].headers = NoHeaders
    /\ result = Return(Value("Response", 0))

(* C14 as stated: the diagnostic payload of a SodaHTTPError is always a    *)
(* mapping (the empty one when the payload text does not parse), so that   *)
(* reading code, error, message or query never fails.                      *)
C14_DetailAlwaysMapping ==
    err # NoErr =>
        /\ err.error_detail.t = "dict"
        /\ call.op = "property" => result.tag = "return"

(* C15: the rendered message of a SodaHTTPError depends on the status, the *)
(* reason and the request URL only: "Client Error {status}: {reason}" for  *)
(* 400..499 and "Server Error {status}: {reason}" for 500..599, followed   *)
(* by " for url {url}" when a URL is known and by ". See error_detail.";   *)
(* "Undefined Error {status}: {reason}" and nothing more for every other   *)
(* status.                                                                 *)
C15_Rendering ==
    call.op = "str" =>
        LET status == StrOfInt(err.status_code)
            url    == err.request_url.v
            rest   == status \o <<": ", err.reason>>
                      \o (IF url # "" THEN <<" for url ", url>> ELSE <<>>)
                      \o <<". See error_detail.">>
        IN  result.tag = "return" /\ result.value =
              (IF err.status_code \in 400..499 THEN <<"Client Error ">> \o rest
               ELSE IF err.status_code \in 500..599 THEN <<"Server Error ">> \o rest
               ELSE <<"Undefined Error ">> \o status \o <<": ", err.reason>>)

\* a 404 with a known URL and a payload that is no JSON was rendered
C15_Witness ==
    /\ call.op = "str"
    /\ err.status_code = 404
    /\ err.error_detail = PyStr("<html>Bad Gateway</html>")
    /\ result = Return(<<"Client Error ", "4", "0", "4", ": ", "Not Found",
                         " for url ", REQUEST_URL, ". See error_detail.">>)

(* C16: when a client is used as the manager of a with block, its session  *)
(* is closed however the block is left (normally, by an exception, by an   *)
(* early return), and an exception raised in the block still reaches the   *)
(* caller once the session is closed.                                      *)
C16_BlockClosesSession ==
    block.pc = "exited" =>
        /\ session = "closed"
        /\ block.how = "exception" => block.propagated

\* a block was left by an exception: the session is closed, the exception went on
C16_Witness ==
    /\ block.pc = "exited"
    /\ block.how = "exception"
    /\ block.propagated
    /\ session = "closed"

(* C20 as stated: every constructed client has a non-empty host and a      *)
(* positive numeric timeout; the construction fails when the host is empty *)
(* or None, when the timeout is not a number, and when the timeout is zero *)
(* or negative.                                                            *)
C20_ValidClient ==
    /\ client # NoClient =>
          /\ client.domain.t = "str" /\ client.domain.v # ""
          /\ client.timeout.t \in {"int", "float"} /\ client.timeout.v > 0
    /\ call.op = "Socrata" =>
          LET a == call.args
              positive == IF a.timeout.t \in {"int", "float"} THEN a.timeout.v > 0
                                                              ELSE FALSE
          IN  (a.domain \in {None, PyStr("")} \/ ~positive) => result.tag = "raise"

ParamsNamed(ps, name) == SelectSeq(ps, LAMBDA pair : pair[1] = name)

(* C18: a repeatable option (ids, domains, categories, tags, only,         *)
(* shared_to, column_names) given as a sequence of n elements is sent as n *)
(* parameters of that name, one per element and in the order given, never  *)
(* as one joined value (for domains they follow the parameter of the       *)
(* client's own domain); a single-value option is sent as exactly one      *)
(* parameter.                                                              *)
C18_RepeatedParams ==
    (call.op = "datasets" /\ UnknownFilters(call.kwargs) = {}) =>
        \A r \in 1..Len(requests), i \in 1..Len(call.kwargs) :
            LET key   == call.kwargs[i][1]
                value == call.kwargs[i][2]
                sent  == ParamsNamed(requests[r].params, key)
                own   == IF key = "domains" THEN 1 ELSE 0
            IN  IF key \in filter_multiple
                THEN /\ Len(sent) = own + Len(value)
                     /\ \A j \in 1..Len(value) : sent[own + j][2] = value[j]
                ELSE /\ Len(sent) = 1
                     /\ sent[1][2] = value

\* a call with tags=["a", "b"] sent two tags parameters, a then b
C18_Witness ==
    /\ call.op = "datasets"
    /\ Len(requests) >= 1
    /\ \E i \in 1..Len(call.kwargs) :
          /\ call.kwargs[i] = <<"tags", <<PyStr("a"), PyStr("b")>> >>
          /\ ParamsNamed(requests[1].params, "tags")
                = << <<"tags", PyStr("a")>>, <<"tags", PyStr("b")>> >>

(* C19 as stated: a row-query call whose content-type token is not one of  *)
(* csv, json, rdfxml, xml fails with an invalid-argument error before any  *)
(* request is sent; for a recognized token the Accept header of the        *)
(* request is the MIME type the Formats enumeration gives for the token.   *)
C19_ContentTypeValidated ==
    call.op = "get" =>
        IF call.content_type \in {"csv", "json", "rdfxml", "xml"}
        THEN requests[1].headers =
                [h \in {"Accept"} |-> PyStr(FormatsMimetype(call.content_type))]
        ELSE /\ requests = <<>>
             /\ result.tag = "raise"
             /\ result.error = "ValueError"

(* C25 as stated: when the construction of a client fails (empty host,     *)
(* inconsistent credentials, non-numeric timeout) no session is left open: *)
(* either none was created before the failure, or the one created has been *)
(* closed.                                                                 *)
C25_NoSessionLeak ==
    (call.op = "Socrata" /\ result.tag = "raise") => session \in {"none", "closed"}

(* C22 as stated: in every request get_all issues, the $limit parameter    *)
(* sent equals the limit get_all compares the page against and advances    *)
(* the offset by: the caller's limit when one is given, the default page   *)
(* size when none is given.                                                *)
C22_LimitSentIsLimitCompared ==
    gen_pc # "created" =>
        /\ limit = DictGet(kwargs, "limit", PyInt(DEFAULT_LIMIT))
        /\ \A k \in 1..Len(requests) :
              /\ "$limit" \in DOMAIN requests[k].params
              /\ requests[k].params["$limit"] = limit

\* the records of the server that get_all is to yield: those from the start offset on
StartOffset == DictGet(kwargs, "offset", PyInt(0)).v
ToYield == Max(0, server.records - StartOffset)

(* C21: against a server that holds a fixed list of N records and answers  *)
(* every row query with the records from $offset on, at most $limit of     *)
(* them (at most the default page size when no $limit is sent), get_all    *)
(* with start offset o and limit L >= 1 yields the records o..N-1, each    *)
(* once and in the order of the server (the k-th record yielded is record  *)
(* o+k-1), never fails, has yielded all N-o of them when it ends, and does *)
(* end unless the consumer stops asking.                                   *)
C21_FixedServerComplete ==
    /\ [](RequestedLimit >= 1 =>
            /\ gen_pc # "raised"
            /\ nYielded > 0 =>
                  ReqOffset(lastYielded[1]) + lastYielded[2] = StartOffset + nYielded
            /\ nYielded <= ToYield
            /\ gen_pc = "done" => nYielded = ToYield)
    /\ <>(RequestedLimit = 0 \/ consumer = "stopped" \/ gen_pc = "done")

\* two records read with limit 1: a third, empty page ended the sequence
C21_Witness ==
    /\ server = RowServer(2)
    /\ kwargs = [limit |-> PyInt(1)]
    /\ gen_pc = "done"
    /\ nYielded = 2
    /\ Len(requests) = 3

\* the entries of the catalog from the offset of the call on
EntriesFrom(offset) == [i \in 1..Max(0, server.entries - offset) |-> offset + i]

(* C23 as stated: against a catalog that holds T entries, reports          *)
(* resultSetSize = T in every answer and returns the entries from the      *)
(* offset on, one page at most per request, datasets(limit=0, offset=O)    *)
(* terminates and returns exactly the entries O..T-1 in the order of the   *)
(* catalog: it does not raise, what it returns is that list, and, as it    *)
(* terminates, it never asks twice for the same offset (the same request   *)
(* gets the same answer and leaves the loop where it was).                 *)
C23_AllEntriesOnce ==
    (call.op = "datasets" /\ call.limit = 0 /\ UnknownFilters(call.kwargs) = {}) =>
        /\ result.tag # "raise"
        /\ result.tag = "return" => result.value.items = EntriesFrom(call.offset)
        /\ \A j, k \in 1..Len(requests) :
              j # k => RequestOffset(requests[j]) # RequestOffset(requests[k])

(* C24 as stated: against the same catalog, datasets(limit=L, offset=O)    *)
(* with L >= 1 returns the list the catalog sends, min(L, max(0, T-O))     *)
(* entries, without raising, for every T and O.                            *)
C24_NoRaiseOnRightCount ==
    (call.op = "datasets" /\ call.limit >= 1 /\ UnknownFilters(call.kwargs) = {}) =>
        /\ Len(perform_request("get", responses[1]).value.results)
              = Min(call.limit, Max(0, server.entries - call.offset))
        /\ result = Return(ListValue(perform_request("get", responses[1]).value.results))

====
